---- MODULE Spec2Model ----
(***************************************************************************)
(* A model of tools/bin2carray.py: the generator that turns binary files   *)
(* into C source/header pairs holding byte arrays.                         *)
(*                                                                         *)
(* Text is modelled as sequences of one-character strings, a file path    *)
(* included.  The content of a generated file is the sequence of the      *)
(* strings the program handed to write(), one item per call.              *)
(***************************************************************************)
EXTENDS Integers, Sequences, FiniteSets, TLC

VARIABLES
    args,           \* the parsed command line (line 32)
    pc,             \* position of main
    inFileNames,    \* the resolved input list (lines 39-43)
    idx,            \* index of the next input of the loop at line 53
    outSourceFile,  \* the shared source handle, or the none handle
    outHeaderFile,  \* the shared header handle, or the none handle
    fs,             \* the file system: path -> content
    stdout,         \* what print() wrote
    exitCode,       \* exit status of the process, -1 while running
    raised,         \* the exception that ended the run, "" when none did
    unclosed,       \* input handles opened and never closed
    opened,         \* every path the run has opened so far
    headers,        \* the paths written and closed through a header handle
    data,           \* the bytes of the stream given to dataToArrayContents
    contents,       \* the text dataToArrayContents returned
    infile,         \* the input path given to processFile
    protos          \* the prototype and the definition generated for infile

vars == <<args, pc, inFileNames, idx, outSourceFile, outHeaderFile, fs,
          stdout, exitCode, raised, unclosed, opened, headers,
          data, contents, infile, protos>>

mainVars == <<inFileNames, idx, outSourceFile, outHeaderFile, fs,
              stdout, exitCode, raised, unclosed, opened, headers>>

(***************************************************************************)
(* Bounds of the model.                                                    *)
(***************************************************************************)
MaxPatterns == 2      \* patterns given after -i
MaxDataLen == 3       \* bytes of a transcribed stream
MaxPrefixLen == 2     \* characters of a --prefix
MaxPathLen == 3       \* characters of an input path

(***************************************************************************)
(* Characters.                                                             *)
(***************************************************************************)
LowerSeq == <<"a","b","c","d","e","f","g","h","i","j","k","l","m",
              "n","o","p","q","r","s","t","u","v","w","x","y","z">>
UpperSeq == <<"A","B","C","D","E","F","G","H","I","J","K","L","M",
              "N","O","P","Q","R","S","T","U","V","W","X","Y","Z">>
DigitSeq == <<"0","1","2","3","4","5","6","7","8","9">>

Range(s) == {s[i] : i \in 1..Len(s)}

\* the character class [0-9a-zA-Z] of lines 97 and 162
IsAlnum(c) == c \in Range(DigitSeq) \cup Range(LowerSeq) \cup Range(UpperSeq)

\* str.upper() on one character (line 97)
UpperChar(c) ==
    IF c \in Range(LowerSeq)
    THEN UpperSeq[CHOOSE i \in 1..26 : LowerSeq[i] = c]
    ELSE c

upper(s) == [i \in 1..Len(s) |-> UpperChar(s[i])]

\* number of leading characters of s that [^0-9a-zA-Z] matches
RECURSIVE RunLen(_)
RunLen(s) ==
    IF s = <<>> \/ IsAlnum(Head(s)) THEN 0 ELSE 1 + RunLen(Tail(s))

\* re.sub('[^0-9a-zA-Z]+', '_', s): left to right, each greedy match of
\* the class is replaced by one underscore
RECURSIVE re_sub(_)
re_sub(s) ==
    IF s = <<>> THEN <<>>
    ELSE IF IsAlnum(Head(s)) THEN <<Head(s)>> \o re_sub(Tail(s))
    ELSE <<"_">> \o re_sub(SubSeq(s, RunLen(s) + 1, Len(s)))

\* str.rfind(c) + 1: the 1-based index of the last c in s, 0 when absent
rfind(s, c) ==
    IF \E i \in 1..Len(s) : s[i] = c
    THEN CHOOSE i \in 1..Len(s) : s[i] = c /\ \A j \in (i+1)..Len(s) : s[j] # c
    ELSE 0

\* os.path.split(p)[1] and os.path.basename(p)
basename(p) == SubSeq(p, rfind(p, "/") + 1, Len(p))

\* os.path.splitext(p)[0]: cut at the last dot of the last component,
\* unless only dots precede it in that component
splitext_root(p) ==
    LET sepIndex == rfind(p, "/")
        dotIndex == rfind(p, ".")
    IN  IF dotIndex > sepIndex
           /\ \E k \in (sepIndex + 1)..(dotIndex - 1) : p[k] # "."
        THEN SubSeq(p, 1, dotIndex - 1)
        ELSE p

(***************************************************************************)
(* Byte transcription (lines 136-145).                                     *)
(***************************************************************************)
ByteMax == 255

HexSeq == <<"0","1","2","3","4","5","6","7","8","9","a","b","c","d","e","f">>

\* the digits of format(n, 'x'): lowercase, no leading zero
RECURSIVE HexDigitsOf(_)
HexDigitsOf(n) ==
    IF n < 16 THEN <<HexSeq[n + 1]>>
    ELSE HexDigitsOf(n \div 16) \o <<HexSeq[(n % 16) + 1]>>

Zeros(n) == [i \in 1..n |-> "0"]

\* FormatHex without the zero fill ("{0:#x}")
FormatHex_unpadded(b, width) == <<"0", "x">> \o HexDigitsOf(b)

\* "{0:#0{1}x}".format(b, width): 0x, then the digits zero-padded so that
\* the whole token has at least width characters
FormatHex(b, width) ==
    LET digits == HexDigitsOf(b)
        pad == IF width - 2 > Len(digits) THEN width - 2 - Len(digits) ELSE 0
    IN  <<"0", "x">> \o Zeros(pad) \o digits

\* ", ".join(values)
RECURSIVE join(_)
join(values) ==
    IF values = <<>> THEN <<>>
    ELSE IF Len(values) = 1 THEN Head(values)
    ELSE Head(values) \o <<",", " ">> \o join(Tail(values))

dataToArrayContents(bytes) ==
    LET values == [i \in 1..Len(bytes) |-> FormatHex(bytes[i], 4)]
    IN  <<"\n", " ", " ">> \o join(values)

(***************************************************************************)
(* Array prototypes (lines 121-133) and names (lines 161-162).             *)
(***************************************************************************)
generateProto(varName, isHeader) ==
    LET typePrefix == IF isHeader THEN <<"e","x","t","e","r","n"," ">> ELSE <<" ">>
        varNamePrefix == IF isHeader THEN <<>>
                         ELSE <<"_","_","a","l","i","g","n","e","d","(","4",")"," ">>
        dataType == <<"c","o","n","s","t"," ","u","i","n","t","8","_","t"," ">>
        suffix == IF isHeader THEN <<";">> ELSE <<" ","="," ">>
    IN  typePrefix \o dataType \o varNamePrefix \o varName \o <<"[","]">> \o suffix

\* arrayName with the substitution applied to the file name only
arrayName_basenameOnly(prefix, path) == prefix \o re_sub(basename(path))

\* lines 161-162
arrayName(prefix, path) == re_sub(prefix \o basename(path))

(***************************************************************************)
(* The parsed command line.  in_given is FALSE when -i is absent, and then *)
(* args['in'] is None; out is the empty string when --out is absent       *)
(* (line 45 tests its truth value only).                                   *)
(***************************************************************************)
Args(given, pats, out, prefix) ==
    [in_given |-> given, in |-> pats, out |-> out, prefix |-> prefix]

NoArgs == Args(TRUE, <<>>, <<>>, <<>>)

\* the handle value None
NoHandle == [name |-> <<>>, buf |-> <<>>, state |-> "none"]

RECURSIVE SeqsUpTo(_, _)
SeqsUpTo(S, n) ==
    IF n = 0 THEN {<<>>}
    ELSE LET shorter == SeqsUpTo(S, n - 1)
         IN  shorter \cup {Append(s, c) : s \in shorter, c \in S}

(***************************************************************************)
(* Specification SpecTranscribe: dataToArrayContents applied to a byte     *)
(* stream.  The first byte ranges over every byte value, the later ones    *)
(* over the values at the edges of the one- and two-digit ranges.          *)
(***************************************************************************)
EdgeBytes == {0, 9, 10, 15, 16, 255}

DataInputs ==
    {<<>>} \cup {<<b>> \o t : b \in 0..ByteMax,
                             t \in SeqsUpTo(EdgeBytes, MaxDataLen - 1)}

InitTranscribe ==
    /\ pc = "transcribe"
    /\ data \in DataInputs
    /\ contents = <<>>
    /\ args = NoArgs
    /\ infile = <<>>
    /\ protos = <<>>
    /\ inFileNames = <<>>
    /\ idx = 0
    /\ outSourceFile = NoHandle
    /\ outHeaderFile = NoHandle
    /\ fs = <<>>
    /\ stdout = <<>>
    /\ exitCode = -1
    /\ raised = ""
    /\ unclosed = <<>>
    /\ opened = {}
    /\ headers = {}

\* lines 140-145
Transcribe ==
    /\ pc = "transcribe"
    /\ contents' = dataToArrayContents(data)
    /\ pc' = "transcribed"
    /\ UNCHANGED <<args, data, infile, protos, mainVars>>

NextTranscribe == Transcribe

SpecTranscribe == InitTranscribe /\ [][NextTranscribe]_vars

(***************************************************************************)
(* Specification SpecName: the array name processFile derives from a       *)
(* prefix and an input path, and the two prototypes that carry it.         *)
(***************************************************************************)
Alphabet == {"a", "Z", "7", "_", ".", "/"}

InitName ==
    /\ pc = "name"
    /\ \E prefix \in SeqsUpTo(Alphabet, MaxPrefixLen) :
           args = Args(TRUE, <<>>, <<>>, prefix)
    /\ infile \in SeqsUpTo(Alphabet, MaxPathLen) \ {<<>>}
    /\ protos = <<>>
    /\ data = <<>>
    /\ contents = <<>>
    /\ inFileNames = <<>>
    /\ idx = 0
    /\ outSourceFile = NoHandle
    /\ outHeaderFile = NoHandle
    /\ fs = <<>>
    /\ stdout = <<>>
    /\ exitCode = -1
    /\ raised = ""
    /\ unclosed = <<>>
    /\ opened = {}
    /\ headers = {}

\* lines 161-162, 170-171 and 174-175
NameArray ==
    /\ pc = "name"
    /\ LET varName == arrayName(args.prefix, infile)
       IN  protos' = <<generateProto(varName, TRUE), generateProto(varName, FALSE)>>
    /\ pc' = "named"
    /\ UNCHANGED <<args, data, contents, infile, mainVars>>

NextName == NameArray

SpecName == InitName /\ [][NextName]_vars

(***************************************************************************)
(* The environment of a run: the files of the working directory, in the    *)
(* order the directory lists them.  a.b and a.d share their stem, x.c has  *)
(* the extension of a generated source file, u.b cannot be opened for      *)
(* reading, s.b opens but cannot seek (a pipe), r.b opens and seeks but    *)
(* fails when read.                                                        *)
(***************************************************************************)
DirListing ==
    << <<"a",".","b">>, <<"a",".","d">>, <<"r",".","b">>,
       <<"s",".","b">>, <<"u",".","b">>, <<"x",".","c">> >>

InitialBytes(p) ==
    CASE p = <<"a",".","b">> -> <<1, 2, 255>>
      [] p = <<"a",".","d">> -> <<16>>
      [] p = <<"r",".","b">> -> <<7>>
      [] p = <<"x",".","c">> -> <<104, 105>>
      [] OTHER -> <<>>

\* what happens when the input is opened and read at lines 165-176
FaultOf(p) ==
    CASE p = <<"u",".","b">> -> "open"
      [] p = <<"s",".","b">> -> "seek"
      [] p = <<"r",".","b">> -> "read"
      [] OTHER -> "ok"

\* the values given to -i, --out and --prefix
Patterns ==
    { <<"a",".","*">>, <<"*",".","b">>, <<"x",".","c">>, <<"u",".","b">>, <<"z","*">> }

OutChoices == { <<>>, <<"o",".","c">>, <<"o",".","h">>, <<"x",".","c">> }

PrefixChoices == { <<>>, <<"g","-">> }

\* fnmatch of one path component: * matches any run of characters
RECURSIVE fnmatch(_, _)
fnmatch(name, pat) ==
    IF pat = <<>> THEN name = <<>>
    ELSE IF Head(pat) = "*"
         THEN \E k \in 0..Len(name) :
                  fnmatch(SubSeq(name, k + 1, Len(name)), Tail(pat))
         ELSE /\ name # <<>>
              /\ Head(name) = Head(pat)
              /\ fnmatch(Tail(name), Tail(pat))

\* glob.glob(inGlob): the existing files the pattern matches, in directory order
glob(inGlob) == SelectSeq(DirListing, LAMBDA f : fnmatch(f, inGlob))

\* lines 41-43: the matches of every pattern, in pattern order
RECURSIVE resolve(_)
resolve(pats) ==
    IF pats = <<>> THEN <<>> ELSE glob(Head(pats)) \o resolve(Tail(pats))

DotC == <<".", "c">>
DotH == <<".", "h">>

\* every path the run can touch
Paths ==
    LET ins == Range(DirListing)
        stems == {splitext_root(p) : p \in ins \cup (OutChoices \ {<<>>})}
    IN  ins \cup (OutChoices \ {<<>>}) \cup {st \o DotC : st \in stems} \cup {st \o DotH : st \in stems}

File(exists, bytes, text) == [exists |-> exists, bytes |-> bytes, text |-> text]

InitialFs ==
    [p \in Paths |-> IF p \in Range(DirListing)
                     THEN File(TRUE, InitialBytes(p), <<>>)
                     ELSE File(FALSE, <<>>, <<>>)]

(***************************************************************************)
(* The text written to the outputs, one item per write() call.             *)
(***************************************************************************)
Item(k, isHeader, files, path, size, text) ==
    [k |-> k, isHeader |-> isHeader, files |-> files, infile |-> path,
     size |-> size, text |-> text]

\* lines 75-103; for a header file, text is the include-guard token
getFileHeader(fileName, fileList, prefix, isHeaderFile) ==
    Item("fileHeader", isHeaderFile, fileList, <<>>, 0,
         IF isHeaderFile
         THEN re_sub(upper(prefix \o <<"_">> \o basename(fileName)))
         ELSE <<>>)

\* lines 110-118: the size is where the stream ends
generateArrayComment(path, bytes, isHeader) ==
    Item("comment", isHeader, <<>>, path, Len(bytes), <<>>)

\* lines 170-171 and 174-175
ProtoItem(path, varName, isHeader) ==
    Item("proto", isHeader, <<>>, path, 0,
         generateProto(varName, isHeader) \o (IF isHeader THEN <<"\n">> ELSE <<"{">>))

\* line 176
ContentsItem(path, bytes) ==
    Item("contents", FALSE, <<>>, path, Len(bytes),
         dataToArrayContents(bytes) \o <<"}", ";">>)

\* lines 58 and 185
EndifItem == Item("endif", TRUE, <<>>, <<>>, 0, <<"\n","#","e","n","d","i","f">>)

\* what is left of an item whose first characters were overwritten
TailItem(item, left) == Item("tail", item.isHeader, <<>>, item.infile, left, <<>>)

\* characters of the comment block of lines 76-88 and 93, which is the
\* same for the two files of a pair
HdrCommentLen == 200

RECURSIVE DecimalLen(_)
DecimalLen(n) == IF n < 10 THEN 1 ELSE 1 + DecimalLen(n \div 10)

RECURSIVE ListLen(_)
ListLen(files) ==
    IF files = <<>> THEN 0
    ELSE 6 + Len(basename(Head(files))) + ListLen(Tail(files))

\* the number of characters a write() of the item puts in the file
ItemLen(item) ==
    CASE item.k = "fileHeader" ->
            HdrCommentLen + ListLen(item.files)
            + (IF item.isHeader THEN 21 + 2 * Len(item.text) ELSE 27) + 21
      [] item.k = "comment" ->
            13 + Len(item.infile) + 1 + 11 + DecimalLen(item.size) + 10
      [] item.k = "tail" -> item.size
      [] OTHER -> Len(item.text)

RECURSIVE TotalLen(_)
TotalLen(items) ==
    IF items = <<>> THEN 0 ELSE ItemLen(Head(items)) + TotalLen(Tail(items))

\* the part of items that starts off characters in
RECURSIVE TailFrom(_, _)
TailFrom(items, off) ==
    IF items = <<>> THEN <<>>
    ELSE IF off = 0 THEN items
    ELSE IF ItemLen(Head(items)) <= off
         THEN TailFrom(Tail(items), off - ItemLen(Head(items)))
         ELSE <<TailItem(Head(items), ItemLen(Head(items)) - off)>> \o Tail(items)

(***************************************************************************)
(* File handles.  A handle opened with "w" truncates its file and buffers  *)
(* what is written; the texts of the model are shorter than the buffer, so *)
(* close() writes the whole buffer at offset 0 of the file, over whatever  *)
(* another handle on the same file put there.                              *)
(***************************************************************************)
OpenW(name) == [name |-> name, buf |-> <<>>, state |-> "open"]

Write(h, item) == [h EXCEPT !.buf = Append(@, item)]

Truncated(files, name) == [files EXCEPT ![name] = File(TRUE, <<>>, <<>>)]

Closed(files, h) ==
    [files EXCEPT ![h.name] =
        File(TRUE, <<>>, h.buf \o TailFrom(@.text, TotalLen(h.buf)))]

\* writeEndif with the write left out
writeEndif_skipped(h) == h

\* lines 58 and 185: the closing guard goes to the header before it is closed
writeEndif(h) == Write(h, EndifItem)

Message(msg, path) == [msg |-> msg, infile |-> path]

(***************************************************************************)
(* processFile (lines 148-188) on one input, given the two handles main    *)
(* passes and the file system; the result is what the call leaves behind.  *)
(* reclaimed tells whether the runtime finalises a handle the code left    *)
(* open when the function returns, which the language leaves open.         *)
(***************************************************************************)
processFile(path, srcOutput, hdrOutput, files, prefix, reclaimed) ==
    LET closeFile == srcOutput.state = "none"
        outPathWithoutExt == splitext_root(path)
        cName == outPathWithoutExt \o DotC
        hName == outPathWithoutExt \o DotH
        files1 == IF closeFile
                  THEN Truncated(Truncated(files, cName), hName)
                  ELSE files
        src0 == IF closeFile
                THEN Write(OpenW(cName), getFileHeader(cName, <<path>>, prefix, FALSE))
                ELSE srcOutput
        hdr0 == IF closeFile
                THEN Write(OpenW(hName), getFileHeader(hName, <<path>>, prefix, TRUE))
                ELSE hdrOutput
        varName == arrayName(prefix, path)
        fault == FaultOf(path)
        bytes == files1[path].bytes
        isOpen == fault # "open"
        hasComment == fault \in {"ok", "read"}
        isRead == fault = "ok"
        hdr1 == IF hasComment
                THEN Write(Write(hdr0, generateArrayComment(path, bytes, TRUE)),
                           ProtoItem(path, varName, TRUE))
                ELSE hdr0
        src1 == IF hasComment
                THEN Write(Write(src0, generateArrayComment(path, bytes, FALSE)),
                           ProtoItem(path, varName, FALSE))
                ELSE src0
        src2 == IF isRead THEN Write(src1, ContentsItem(path, bytes)) ELSE src1
        files2 == IF closeFile
                  THEN Closed(Closed(files1, src2), writeEndif(hdr1))
                  ELSE files1
    IN  [fs |-> files2,
         src |-> IF closeFile THEN srcOutput ELSE src2,
         hdr |-> IF closeFile THEN hdrOutput ELSE hdr1,
         printed |-> IF isRead THEN <<>> ELSE <<Message("cannot convert", path)>>,
         leaked |-> IF isOpen /\ ~isRead /\ ~reclaimed THEN <<path>> ELSE <<>>,
         opened |-> (IF closeFile THEN {cName, hName} ELSE {})
                    \cup (IF isOpen THEN {path} ELSE {}),
         headers |-> IF closeFile THEN {hName} ELSE {},
         data |-> IF isRead THEN bytes ELSE <<>>,
         contents |-> IF isRead THEN dataToArrayContents(bytes) ELSE <<>>,
         protos |-> IF hasComment
                    THEN <<generateProto(varName, TRUE), generateProto(varName, FALSE)>>
                    ELSE <<>>]

(***************************************************************************)
(* Specification Spec: one run of main.                                    *)
(***************************************************************************)
Init ==
    /\ pc = "resolve"
    /\ \E pats \in SeqsUpTo(Patterns, MaxPatterns), out \in OutChoices,
          prefix \in PrefixChoices :
           args = Args(pats # <<>>, pats, out, prefix)
    /\ inFileNames = <<>>
    /\ idx = 0
    /\ outSourceFile = NoHandle
    /\ outHeaderFile = NoHandle
    /\ fs = InitialFs
    /\ stdout = <<>>
    /\ exitCode = -1
    /\ raised = ""
    /\ unclosed = <<>>
    /\ opened = {}
    /\ headers = {}
    /\ data = <<>>
    /\ contents = <<>>
    /\ infile = <<>>
    /\ protos = <<>>

\* lines 39-43; iterating over None raises TypeError, which nothing catches
ResolveInputs ==
    /\ pc = "resolve"
    /\ IF args.in_given
       THEN /\ inFileNames' = resolve(args.in)
            /\ pc' = "open"
            /\ UNCHANGED <<exitCode, raised>>
       ELSE /\ pc' = "crashed"
            /\ raised' = "TypeError"
            /\ exitCode' = 1
            /\ UNCHANGED inFileNames
    /\ UNCHANGED <<args, idx, outSourceFile, outHeaderFile, fs, stdout,
                   unclosed, opened, headers, data, contents, infile, protos>>

\* lines 45-51
OpenOutputs ==
    /\ pc = "open"
    /\ IF args.out # <<>>
       THEN LET outSourceFileName == args.out
                outHeaderFileName == splitext_root(outSourceFileName) \o DotH
            IN  /\ fs' = Truncated(Truncated(fs, outSourceFileName), outHeaderFileName)
                /\ outSourceFile' =
                       Write(OpenW(outSourceFileName),
                             getFileHeader(outSourceFileName, inFileNames, args.prefix, FALSE))
                /\ outHeaderFile' =
                       Write(OpenW(outHeaderFileName),
                             getFileHeader(outHeaderFileName, inFileNames, args.prefix, TRUE))
                /\ opened' = opened \cup {outSourceFileName, outHeaderFileName}
       ELSE UNCHANGED <<fs, outSourceFile, outHeaderFile, opened>>
    /\ idx' = 1
    /\ pc' = "loop"
    /\ UNCHANGED <<args, inFileNames, stdout, exitCode, raised, unclosed,
                   headers, data, contents, infile, protos>>

\* lines 53-55: one turn of the loop, the whole call of processFile
ProcessNext ==
    /\ pc = "loop"
    /\ idx <= Len(inFileNames)
    /\ \E reclaimed \in BOOLEAN :
         LET r == processFile(inFileNames[idx], outSourceFile, outHeaderFile,
                              fs, args.prefix, reclaimed)
         IN  /\ fs' = r.fs
             /\ outSourceFile' = r.src
             /\ outHeaderFile' = r.hdr
             /\ stdout' = stdout \o r.printed
             /\ unclosed' = unclosed \o r.leaked
             /\ opened' = opened \cup r.opened
             /\ headers' = headers \cup r.headers
             /\ data' = r.data
             /\ contents' = r.contents
             /\ protos' = r.protos
    /\ infile' = inFileNames[idx]
    /\ idx' = idx + 1
    /\ UNCHANGED <<args, pc, inFileNames, exitCode, raised>>

\* lines 57-59; in split mode outSourceFile is None and close() raises
\* AttributeError, which nothing catches
CloseOutputs ==
    /\ pc = "loop"
    /\ idx > Len(inFileNames)
    /\ IF outSourceFile.state = "none"
       THEN /\ pc' = "crashed"
            /\ raised' = "AttributeError"
            /\ exitCode' = 1
            /\ UNCHANGED <<outSourceFile, outHeaderFile, fs, headers>>
       ELSE LET hdr == writeEndif(outHeaderFile)
            IN  /\ fs' = Closed(Closed(fs, outSourceFile), hdr)
                /\ outSourceFile' = [outSourceFile EXCEPT !.state = "closed"]
                /\ outHeaderFile' = [hdr EXCEPT !.state = "closed"]
                /\ headers' = headers \cup {hdr.name}
                /\ pc' = "summary"
                /\ UNCHANGED <<exitCode, raised>>
    /\ UNCHANGED <<args, inFileNames, idx, stdout, unclosed, opened,
                   data, contents, infile, protos>>

\* lines 61-68
PrintSummary ==
    /\ pc = "summary"
    /\ stdout' = Append(stdout, Message("generated", outSourceFile.name))
    /\ exitCode' = 0
    /\ pc' = "done"
    /\ UNCHANGED <<args, inFileNames, idx, outSourceFile, outHeaderFile, fs,
                   raised, unclosed, opened, headers, data, contents, infile, protos>>

Next ==
    \/ ResolveInputs
    \/ OpenOutputs
    \/ ProcessNext
    \/ CloseOutputs
    \/ PrintSummary

Spec == Init /\ [][Next]_vars

(***************************************************************************)
(* Vocabulary of the properties.                                           *)
(***************************************************************************)
Ended == pc \in {"done", "crashed"}
Combined == args.out # <<>>
SplitMode == args.out = <<>>

\* the pair of files in which the run puts the array of input f
SourceOf(f) == IF Combined THEN args.out ELSE splitext_root(f) \o DotC
HeaderOf(f) == IF Combined THEN splitext_root(args.out) \o DotH
                           ELSE splitext_root(f) \o DotH

IsExternProto(item) == item.k = "proto" /\ item.isHeader
IsGuard(item) == item.k = "fileHeader" /\ item.isHeader
IsEndif(item) == item.k = "endif"

Count(items, Test(_)) == Cardinality({i \in 1..Len(items) : Test(items[i])})

\* the inputs whose extern prototypes a text holds, in the order of the text
ProtoInputs(items) ==
    LET ps == SelectSeq(items, IsExternProto)
    IN  [i \in 1..Len(ps) |-> ps[i].infile]

\* the inputs whose complete definitions a text holds: the definition's
\* opening line directly followed by the array contents of the same input
DefinitionInputs(items) ==
    LET at == SelectSeq([i \in 1..Len(items) |-> i],
                        LAMBDA i : /\ items[i].k = "proto"
                                   /\ ~items[i].isHeader
                                   /\ i < Len(items)
                                   /\ items[i + 1].k = "contents"
                                   /\ items[i + 1].infile = items[i].infile)
    IN  [i \in 1..Len(at) |-> items[at[i]].infile]

\* the array of input f is in the pair the run generated for it
Emitted(f) ==
    /\ \E item \in Range(fs[HeaderOf(f)].text) : IsExternProto(item) /\ item.infile = f
    /\ \E i \in 1..Len(DefinitionInputs(fs[SourceOf(f)].text)) :
           DefinitionInputs(fs[SourceOf(f)].text)[i] = f

Unreadable == {i \in 1..Len(inFileNames) : FaultOf(inFileNames[i]) = "open"}

(***************************************************************************)
(* C1: whenever some resolved input cannot be opened for reading, in       *)
(* combined and in split mode, the run ends with exit code 0, a message    *)
(* naming each such input was printed, and every input that reads without  *)
(* error has its array in the generated pair.                              *)
(***************************************************************************)
C1_UnreadableInputIsSkipped ==
    (Ended /\ Unreadable # {}) =>
        /\ exitCode = 0
        /\ \A i \in Unreadable :
               Message("cannot convert", inFileNames[i]) \in Range(stdout)
        /\ \A i \in 1..Len(inFileNames) :
               FaultOf(inFileNames[i]) = "ok" => Emitted(inFileNames[i])

(***************************************************************************)
(* C2: when the patterns match no file the run completes with exit code 0  *)
(* and without an exception; in combined mode the pair holds the header    *)
(* and footer boilerplate only, in split mode no file was opened or        *)
(* changed.                                                                *)
(***************************************************************************)
C2_NoMatchCompletes ==
    (Ended /\ args.in_given /\ inFileNames = <<>>) =>
        /\ exitCode = 0
        /\ raised = ""
        /\ Combined =>
               /\ \A item \in Range(fs[args.out].text) :
                      item.k \in {"fileHeader", "endif"}
               /\ \A item \in Range(fs[splitext_root(args.out) \o DotH].text) :
                      item.k \in {"fileHeader", "endif"}
        /\ SplitMode => (opened = {} /\ fs = InitialFs)

(***************************************************************************)
(* C3: when -i is absent the run ends as a usage error (the exit status 2  *)
(* of the argument parser, no exception escaping main), and no file has    *)
(* been opened, created or changed.                                        *)
(***************************************************************************)
C3_MissingInputIsUsageError ==
    (Ended /\ ~args.in_given) =>
        /\ exitCode = 2
        /\ raised = ""
        /\ opened = {}
        /\ fs = InitialFs

(***************************************************************************)
(* C4: every header file the run has generated, in combined and in split   *)
(* mode and whatever inputs failed, holds exactly one opening include      *)
(* guard, at its start, and exactly one #endif, and every extern prototype *)
(* of the file comes before the #endif.                                    *)
(***************************************************************************)
C4_HeaderGuardedOnce ==
    \A p \in headers :
        LET text == fs[p].text
        IN  /\ Count(text, IsGuard) = 1
            /\ IsGuard(text[1])
            /\ Count(text, IsEndif) = 1
            /\ \A i, j \in 1..Len(text) :
                   (IsExternProto(text[i]) /\ IsEndif(text[j])) => i < j

\* a run that ended normally although an input failed to open, and that
\* generated a header with at least two prototypes
C4_Witness ==
    /\ pc = "done"
    /\ Unreadable # {}
    /\ \E p \in headers : Count(fs[p].text, IsExternProto) >= 2

(***************************************************************************)
(* C5: when the run has ended no file handle is open: every input handle   *)
(* was closed, also for an input that failed to open or failed while it    *)
(* was read, and the shared output handles of combined mode were closed.   *)
(***************************************************************************)
C5_NoHandleLeftOpen ==
    Ended =>
        /\ unclosed = <<>>
        /\ outSourceFile.state # "open"
        /\ outHeaderFile.state # "open"

(***************************************************************************)
(* C8: in combined mode, after the run, the header holds exactly one       *)
(* extern prototype and the source exactly one definition for each         *)
(* resolved input that could be opened, in the order of the resolved input *)
(* list, duplicates kept, nothing written earlier having been overwritten. *)
(***************************************************************************)
C8_CombinedPairHoldsEveryInput ==
    (pc = "done" /\ Combined) =>
        LET couldOpen == SelectSeq(inFileNames, LAMBDA f : FaultOf(f) # "open")
        IN  /\ ProtoInputs(fs[splitext_root(args.out) \o DotH].text) = couldOpen
            /\ DefinitionInputs(fs[args.out].text) = couldOpen

(***************************************************************************)
(* C9: in split mode with distinct resolved inputs, when the run has       *)
(* ended, every input that was read without error still has its array in   *)
(* the pair derived from its own path: no later input has truncated or     *)
(* overwritten that pair.                                                  *)
(***************************************************************************)
C9_SplitPairsSurvive ==
    (/\ Ended
     /\ SplitMode
     /\ \A i, j \in 1..Len(inFileNames) :
            i # j => inFileNames[i] # inFileNames[j]) =>
        \A i \in 1..Len(inFileNames) :
            FaultOf(inFileNames[i]) = "ok" => Emitted(inFileNames[i])

(***************************************************************************)
(* C10: in split mode no resolved input file is ever modified, and the     *)
(* bytes transcribed for an input are the bytes its file held when the run *)
(* started.                                                                *)
(***************************************************************************)
C10_InputsNeverModified ==
    SplitMode =>
        /\ \A i \in 1..Len(inFileNames) :
               fs[inFileNames[i]] = InitialFs[inFileNames[i]]
        /\ (pc = "loop" /\ idx > 1 /\ FaultOf(infile) = "ok") =>
               data = InitialBytes(infile)

(***************************************************************************)
(* Reading an emitted array body back: the text is cut at its commas, the  *)
(* white space in front of each piece dropped, and a piece is a token when *)
(* it is 0x followed by exactly two lowercase hexadecimal digits.          *)
(***************************************************************************)
RECURSIVE StripLead(_)
StripLead(s) ==
    IF s # <<>> /\ Head(s) \in {" ", "\n"} THEN StripLead(Tail(s)) ELSE s

RECURSIVE SplitComma(_)
SplitComma(s) ==
    IF \E i \in 1..Len(s) : s[i] = ","
    THEN LET at == CHOOSE i \in 1..Len(s) :
                       s[i] = "," /\ \A j \in 1..(i - 1) : s[j] # ","
         IN  <<SubSeq(s, 1, at - 1)>> \o SplitComma(SubSeq(s, at + 1, Len(s)))
    ELSE <<s>>

TokensOf(text) ==
    IF StripLead(text) = <<>> THEN <<>>
    ELSE LET pieces == SplitComma(text)
         IN  [i \in 1..Len(pieces) |-> StripLead(pieces[i])]

HexValue(c) == (CHOOSE i \in 1..16 : HexSeq[i] = c) - 1

IsHexToken(t) ==
    /\ Len(t) = 4
    /\ t[1] = "0"
    /\ t[2] = "x"
    /\ t[3] \in Range(HexSeq)
    /\ t[4] \in Range(HexSeq)

TokenByte(t) == 16 * HexValue(t[3]) + HexValue(t[4])

(***************************************************************************)
(* C6: the body emitted for a byte sequence holds one token per byte, each *)
(* 0x and two lowercase hexadecimal digits, in the order of the bytes, and *)
(* reading the tokens back yields the byte sequence.                       *)
(***************************************************************************)
C6_TranscriptionRoundTrips ==
    pc = "transcribed" =>
        LET tokens == TokensOf(contents)
        IN  /\ Len(tokens) = Len(data)
            /\ \A i \in 1..Len(tokens) :
                   IsHexToken(tokens[i]) /\ TokenByte(tokens[i]) = data[i]

\* a one-digit byte in front of a two-digit byte has been transcribed
C6_Witness ==
    /\ pc = "transcribed"
    /\ Len(data) >= 2
    /\ data[1] = 10
    /\ data[2] = 255
    /\ SubSeq(contents, 4, 13) = <<"0","x","0","a",","," ","0","x","f","f">>

(***************************************************************************)
(* A sanitized token by the definition of the glossary: every maximal run  *)
(* of non-alphanumeric characters becomes one underscore, which stands     *)
(* where the run began.                                                    *)
(***************************************************************************)
SanitizedToken(s) ==
    LET starts == SelectSeq([i \in 1..Len(s) |-> i],
                            LAMBDA i : \/ IsAlnum(s[i])
                                       \/ i = 1
                                       \/ IsAlnum(s[i - 1]))
    IN  [k \in 1..Len(starts) |->
            IF IsAlnum(s[starts[k]]) THEN s[starts[k]] ELSE "_"]

\* the array name inside the text of a prototype (header) or of the
\* opening of a definition (source)
NameIn(proto, isHeader) ==
    SubSeq(proto, (IF isHeader THEN 21 ELSE 28) + 1,
                  Len(proto) - (IF isHeader THEN 3 ELSE 5))

====
